---- MODULE Spec2Model ----
(***************************************************************************)
(* Model of the RoWorks mesh-to-USD service (roworks.service.api):         *)
(* NonBlockingUSDImporter (import queue and its processor coroutine),      *)
(* MeshUSDManager (upload registry, scheduling of imports) and the HTTP    *)
(* handlers of MeshAPIService that drive them; the object registry of      *)
(* RoWorksSceneManager (roworks.scene.manager); and, as functions of the   *)
(* text they read, the OBJ parsers and point-cloud loaders of              *)
(* MeshUSDManager, RoWorksSceneManager and PolycamProcessor                *)
(* (roworks.data.import).                                                  *)
(*                                                                         *)
(* One action is one handler, or one run of a coroutine from the point it  *)
(* is resumed to its next await.  Names are sequences of one-character     *)
(* strings so that _sanitize_name is computed as the code computes it.     *)
(***************************************************************************)
EXTENDS Integers, Sequences, FiniteSets, TLC

\* ---------------------------------------------------------------- bounds
\* Number of API calls (uploads, forced retries, point-cloud imports) in one
\* behaviour of the service.
MaxCalls == 2

\* Number of schedule_import calls in one behaviour of the importer alone.
MaxSchedules == 2

\* ------------------------------------------------------------- constants
ServerThread == "server"   \* thread started by MeshAPIService.start_server
HostThread == "host"       \* thread of the host application's update loop

None == 0                  \* Python None, where a task index is expected

\* Upload file names.  An upload may repeat a file name, and so an asset
\* name.
Filenames ==
    { <<"m", "-", "1", ".", "z", "i", "p">>,
      <<"k", ".", "z", "i", "p">> }

Digits == {"0", "1", "2", "3", "4", "5", "6", "7", "8", "9"}
Letters == {"a", "b", "c", "d", "e", "f", "g", "h", "i", "j", "k", "l", "m",
            "n", "o", "p", "q", "r", "s", "t", "u", "v", "w", "x", "y", "z",
            "A", "B", "C", "D", "E", "F", "G", "H", "I", "J", "K", "L", "M",
            "N", "O", "P", "Q", "R", "S", "T", "U", "V", "W", "X", "Y", "Z"}

\* ------------------------------------------------------- name sanitising
\* str.rfind('.'): the last index (1-based here) holding a dot, 0 if none.
RECURSIVE RFindDot(_, _)
RFindDot(s, i) ==
    IF i = 0 THEN 0
    ELSE IF s[i] = "." THEN i ELSE RFindDot(s, i - 1)

\* pathlib's stem of a name without directory part: the suffix starts at the
\* last dot, unless that dot is the first or the last character.
Stem(s) ==
    LET i == RFindDot(s, Len(s))
    IN  IF 1 < i /\ i < Len(s) THEN SubSeq(s, 1, i - 1) ELSE s

\* str.split(sep): the fields of s between the separators.
RECURSIVE Split(_, _)
Split(s, sep) ==
    IF \A i \in 1..Len(s) : s[i] # sep THEN <<s>>
    ELSE LET i == CHOOSE j \in 1..Len(s) :
                     s[j] = sep /\ \A k \in 1..(j - 1) : s[k] # sep
         IN  <<SubSeq(s, 1, i - 1)>> \o Split(SubSeq(s, i + 1, Len(s)), sep)

\* pathlib's name of a POSIX path: its last component, where empty and "."
\* components do not count; empty when there is none.
PathName(s) ==
    LET parts == SelectSeq(Split(s, "/"), LAMBDA c : c # <<>> /\ c # <<".">>)
    IN  IF parts = <<>> THEN <<>> ELSE parts[Len(parts)]

\* The same substitution with the dot left in the class of safe characters.
ReplaceUnsafe_KeepsDot(s) ==
    [i \in 1..Len(s) |->
        IF s[i] \in Letters \cup Digits \cup {"_", "."} THEN s[i] ELSE "_"]

\* re.sub(r'[^a-zA-Z0-9_]', '_', name)
ReplaceUnsafe(s) ==
    [i \in 1..Len(s) |->
        IF s[i] \in Letters \cup Digits \cup {"_"} THEN s[i] ELSE "_"]

\* MeshUSDManager._sanitize_name and NonBlockingUSDImporter._sanitize_name
SanitizeName(filename) ==
    LET name == ReplaceUnsafe(Stem(PathName(filename)))
    IN  IF name # <<>> /\ name[1] \in Digits
        THEN <<"A", "s", "s", "e", "t", "_">> \o name
        ELSE IF name # <<>> THEN name
        ELSE <<"U", "n", "n", "a", "m", "e", "d", "A", "s", "s", "e", "t">>

AssetNames == {SanitizeName(f) : f \in Filenames}

\* Asset names passed to schedule_import by its other callers.
ScheduledNames == {<<"k">>}
PrimNames == {SanitizeName(n) : n \in AssetNames \cup ScheduledNames}

\* os.path.join(usd_dir, f"{asset_name}.usd"), relative to temp_dir
UsdPath(asset_name) == asset_name \o <<".", "u", "s", "d">>

\* A USD file that exists on disk outside the manager's temp_dir.
ExternalUsd == <<"x", ".", "u", "s", "d">>

\* The host stage before any import: no parent path, no asset prim, no
\* reference on any prim path.
EmptyScene ==
    [parent |-> FALSE,
     prims |-> [n \in PrimNames |-> "absent"],
     refs |-> [n \in PrimNames |-> <<>>]]

\* ------------------------------------------------------------------ state
VARIABLES
    import_queue,     \* NonBlockingUSDImporter.import_queue: task indices
    is_importing,     \* NonBlockingUSDImporter.is_importing
    tasks,            \* every import_task dict created, in creation order
    cblog,            \* per task: the invocations of its callback, in order
    procs,            \* every _process_import_queue coroutine created
    uploaded_assets,  \* MeshUSDManager.uploaded_assets
    usd_files,        \* asset names whose generated .usd file is on disk
    has_stage,        \* the host context has a stage
    scene,            \* prims of the host stage written by the importer
    scene_writers,    \* threads that have written to the host stage
    pointclouds,      \* RoWorksSceneManager._scene_objects (point clouds)
    typed_prims,      \* stage prims that carry the roworks:file_type attribute
    extract_dir,      \* files in the extraction directory named last
    documents,        \* content of the generated .usd files, by asset name
    textures,         \* texture files on disk, by path
    given,            \* input handed to a parser or loader run on its own
    returned,         \* what that parser or loader returned
    last,             \* outcome of the latest API call
    ncalls            \* number of API calls made

vars == <<import_queue, is_importing, tasks, cblog, procs, uploaded_assets,
          usd_files, has_stage, scene, scene_writers, pointclouds,
          typed_prims, extract_dir, documents, textures, given, returned,
          last, ncalls>>

\* The part of the state the importer and manager code reads and writes,
\* as one value, so that a handler that calls several methods in a row is
\* one step.
\* The variables of the service, which a parser or loader run on its own
\* leaves alone.
service_vars == <<import_queue, is_importing, tasks, cblog, procs,
                  uploaded_assets, usd_files, has_stage, scene,
                  scene_writers, pointclouds, typed_prims, extract_dir,
                  documents, textures, last, ncalls>>

Cur ==
    [ queue |-> import_queue, importing |-> is_importing, tasks |-> tasks,
      cblog |-> cblog, procs |-> procs, assets |-> uploaded_assets,
      files |-> usd_files, stage |-> has_stage, scene |-> scene,
      writers |-> scene_writers ]

Install(s) ==
    /\ import_queue' = s.queue
    /\ is_importing' = s.importing
    /\ tasks' = s.tasks
    /\ cblog' = s.cblog
    /\ procs' = s.procs
    /\ uploaded_assets' = s.assets
    /\ usd_files' = s.files
    /\ has_stage' = s.stage
    /\ scene' = s.scene
    /\ scene_writers' = s.writers

\* The latest API call: the operation, the asset name it was about, the
\* callback it passed to schedule_import, whether the handler reported
\* success, the outcome of quick_usd_check ("not reached" when the handler
\* returned before schedule_import), the task schedule_import returned and
\* the callback invocations schedule_import made itself.
Call(op, name, callback, ok, check, task, cb) ==
    [op |-> op, name |-> name, callback |-> callback, ok |-> ok,
     check |-> check, task |-> task, cb |-> cb]

NoCall == Call("none", <<>>, "none", FALSE, "not reached", None, <<>>)

\* No parser or loader has returned yet.
NotRun == [by |-> "none"]

\* The service after MeshAPIService and RoWorksSceneManager are constructed.
ServiceInit ==
    /\ import_queue = <<>>
    /\ is_importing = FALSE
    /\ tasks = <<>>
    /\ cblog = <<>>
    /\ procs = <<>>
    /\ uploaded_assets = <<>>
    /\ usd_files = {ExternalUsd}
    /\ scene = EmptyScene
    /\ scene_writers = {}
    /\ pointclouds = {}
    /\ typed_prims = {}
    /\ extract_dir = {}
    /\ documents = <<>>
    /\ textures = <<>>
    /\ last = NoCall
    /\ ncalls = 0

Init ==
    /\ ServiceInit
    /\ has_stage \in BOOLEAN
    /\ given = <<>>
    /\ returned = NotRun

\* ------------------------------------------------------ USDAnalyzer
\* USDAnalyzer.quick_usd_check: the file must exist; looks_ok stands for the
\* outcome of the remaining checks (size ceiling, stage opens, prim and
\* vertex counts), which depend on the file's content.
QuickUsdCheck(files, usd_path, looks_ok) ==
    usd_path \in files /\ looks_ok

\* ------------------------------------------------------ callbacks
\* Index of the first record of assets with this asset_name, 0 if none
\* (the for ... break loops over uploaded_assets).
FirstIndex(assets, name) ==
    LET hits == {i \in 1..Len(assets) : assets[i].asset_name = name}
    IN  IF hits = {} THEN 0
        ELSE CHOOSE i \in hits : \A j \in hits : i <= j

\* MeshUSDManager._schedule_usd_import.import_callback
ImportCallback(assets, name, success, message) ==
    LET i == FirstIndex(assets, name)
    IN  IF i = 0 THEN assets
        ELSE [assets EXCEPT
                 ![i].imported_to_scene = success,
                 ![i].import_message = message,
                 ![i].import_status =
                     IF success THEN "completed" ELSE "failed"]

Invocation(success, message) ==
    [success |-> success, message |-> message]

\* task["callback"](success, task["asset_name"], message), guarded by
\* "if task['callback']".  A callback is None, the manager's import_callback
\* or any other callable, which may return or raise.  The result is the set
\* of possible outcomes: the state after the call and whether it raised.
InvokeCallback(s, t, success, message) ==
    LET task == s.tasks[t]
        logged == [s EXCEPT !.cblog[t] =
                      Append(@, Invocation(success, message))]
    IN  CASE task.callback = "none" ->
                {[s |-> s, raised |-> FALSE]}
          [] task.callback = "import_callback" ->
                {[s |-> [logged EXCEPT !.assets =
                            ImportCallback(@, task.asset_name,
                                           success, message)],
                  raised |-> FALSE]}
          [] task.callback = "generic" ->
                {[s |-> logged, raised |-> r] : r \in BOOLEAN}

\* ------------------------------------------------------ schedule_import
NewTask(usd_path, asset_name, callback) ==
    [usd_path |-> usd_path, asset_name |-> asset_name,
     callback |-> callback, status |-> "queued"]

NewProcessor(caller) ==
    [pc |-> "pending", task |-> None, loop |-> caller]

\* schedule_import putting the task on the queue, and starting a processor,
\* before it looks at the outcome of the safety check.
ScheduleImport_Eager(s, usd_path, asset_name, callback, looks_ok, caller) ==
    LET t == Len(s.tasks) + 1
        safe == QuickUsdCheck(s.files, usd_path, looks_ok)
        queued == [s EXCEPT
                      !.tasks = Append(@, NewTask(usd_path, asset_name,
                                                  callback)),
                      !.cblog = Append(@, <<>>),
                      !.queue = Append(@, t)]
    IN  [s |-> IF ~s.importing
               THEN [queued EXCEPT !.procs = Append(@, NewProcessor(caller))]
               ELSE queued,
         task |-> IF safe THEN t ELSE None,
         cb |-> IF safe \/ callback = "none" THEN <<>>
                ELSE <<Invocation(FALSE, "rejected")>>,
         check |-> IF safe THEN "accepted" ELSE "rejected"]

\* NonBlockingUSDImporter.schedule_import, called on thread caller.  The
\* result holds the state after the call, the task returned (None when
\* rejected), the callback invocations made before returning and the
\* outcome of the safety check.
ScheduleImport(s, usd_path, asset_name, callback, looks_ok, caller) ==
    IF ~QuickUsdCheck(s.files, usd_path, looks_ok)
    THEN IF callback = "none"
         THEN [s |-> s, task |-> None, cb |-> <<>>, check |-> "rejected"]
         ELSE [s |-> IF callback = "import_callback"
                     THEN [s EXCEPT !.assets =
                              ImportCallback(@, asset_name, FALSE,
                                             "rejected")]
                     ELSE s,
               task |-> None,
               cb |-> <<Invocation(FALSE, "rejected")>>,
               check |-> "rejected"]
    ELSE LET t == Len(s.tasks) + 1
             queued == [s EXCEPT
                           !.tasks = Append(@, NewTask(usd_path, asset_name,
                                                       callback)),
                           !.cblog = Append(@, <<>>),
                           !.queue = Append(@, t)]
         IN  [s |-> IF ~s.importing
                    THEN [queued EXCEPT
                             !.procs = Append(@, NewProcessor(caller))]
                    ELSE queued,
              task |-> t,
              cb |-> <<>>,
              check |-> "accepted"]

\* ------------------------------------------------- _process_import_queue
\* The finally clause, and the end of the coroutine.
Finally(s, p, pc) ==
    [s EXCEPT !.importing = FALSE, !.procs[p].pc = pc, !.procs[p].task = None]

\* stage.DefinePrim on the parents /World, /World/RoWorks, .../Assets
\* (_ensure_path_exists), executed by the thread that runs processor p.
EnsurePathExists(s, p) ==
    IF s.scene.parent THEN s
    ELSE [s EXCEPT !.scene.parent = TRUE,
                   !.writers = @ \cup {s.procs[p].loop}]

\* A write to the prim of asset name: the prim's new state.
WritePrim(s, p, name, state) ==
    [s EXCEPT !.scene.prims[SanitizeName(name)] = state,
              !.writers = @ \cup {s.procs[p].loop}]

\* stage.RemovePrim(prim_path) leaving the node where it is.
RemovePrim_Keeps(s, p, name) == WritePrim(s, p, name, s.scene.prims[SanitizeName(name)])

\* stage.RemovePrim(prim_path): the node goes with its references.
RemovePrim(s, p, name) ==
    [WritePrim(s, p, name, "absent")
        EXCEPT !.scene.refs[SanitizeName(name)] = <<>>]

\* prim.GetReferences().AddReference(usd_path): one more reference on the
\* node.
AddReference(s, p, name, usd_path) ==
    [WritePrim(s, p, name, "referenced")
        EXCEPT !.scene.refs[SanitizeName(name)] = Append(@, usd_path)]

\* _import_via_reference / _do_reference_import from the call to its first
\* await.
BeginImport(s, p) ==
    IF s.stage
    THEN [EnsurePathExists(s, p) EXCEPT !.procs[p].pc = "ref_parent"]
    ELSE [s EXCEPT !.procs[p].pc = "stage_wait"]

\* LoopHead taking the newest task (pop() in place of pop(0)).
LoopHead_Lifo(s, p) ==
    IF s.queue = <<>>
    THEN Finally(s, p, "done")
    ELSE LET t == s.queue[Len(s.queue)]
         IN  BeginImport([s EXCEPT
                             !.queue = SubSeq(@, 1, Len(@) - 1),
                             !.tasks[t].status = "processing",
                             !.procs[p].task = t], p)

\* The head of "while self.import_queue": leave through finally when the
\* queue is empty, else pop the first task and run it to its first await.
LoopHead(s, p) ==
    IF s.queue = <<>>
    THEN Finally(s, p, "done")
    ELSE LET t == Head(s.queue)
         IN  BeginImport([s EXCEPT !.queue = Tail(@),
                                   !.tasks[t].status = "processing",
                                   !.procs[p].task = t], p)

\* The handler "except Exception as e" of the loop body: the status, the
\* callback once more, then continue; an exception raised by the callback
\* here leaves the coroutine through finally.
ExceptPath(s, p, message) ==
    LET t == s.procs[p].task
        marked == [s EXCEPT !.tasks[t].status = "error"]
    IN  { IF r.raised THEN Finally(r.s, p, "crashed") ELSE LoopHead(r.s, p) :
            r \in InvokeCallback(marked, t, FALSE, message) }

\* The loop body after _import_via_reference has returned
\* (success, error_msg): status, callback, then the await of
\* next_update_async.
FinishImport(s, p, success, error_msg) ==
    LET t == s.procs[p].task
        marked == [s EXCEPT !.tasks[t].status =
                      IF success THEN "completed" ELSE "failed"]
        message == IF success THEN "Import successful" ELSE error_msg
    IN  UNION { IF r.raised
                THEN ExceptPath(r.s, p, "callback error")
                ELSE {[r.s EXCEPT !.procs[p].pc = "yield"]} :
                  r \in InvokeCallback(marked, t, success, message) }

\* ------------------------------------------------------ MeshUSDManager
\* Index-wise update of the first record named asset_name (the
\* "for asset in self.uploaded_assets: if ...: ...; break" loops).
MarkFirst(assets, asset_name, status, message) ==
    LET i == FirstIndex(assets, asset_name)
    IN  IF i = 0 THEN assets
        ELSE [assets EXCEPT ![i].import_status = status,
                            ![i].import_message = message]

\* MeshUSDManager._schedule_usd_import, called by the API handlers, which
\* run on the server thread.
ScheduleUsdImport(s, usd_path, asset_name, looks_ok) ==
    LET r == ScheduleImport(s, usd_path, asset_name, "import_callback",
                            looks_ok, ServerThread)
    IN  [r EXCEPT !.s.assets =
            IF r.task # None
            THEN MarkFirst(@, asset_name, "importing", "Import in progress...")
            ELSE MarkFirst(@, asset_name, "failed",
                           "Failed to schedule import")]

AssetInfo(filename, asset_name) ==
    [filename |-> filename, asset_name |-> asset_name,
     usd_path |-> UsdPath(asset_name), imported_to_scene |-> FALSE,
     import_status |-> "scheduled", import_message |-> "Import scheduled"]

\* MeshUSDManager.process_mesh_zip.  valid is the outcome of
\* _extract_and_validate_zip, built the outcome of _create_usd_asset.
ProcessMeshZip(s, filename, valid, built, looks_ok) ==
    IF ~valid \/ ~built
    THEN [s |-> s, task |-> None, cb |-> <<>>, check |-> "not reached",
          success |-> FALSE]
    ELSE LET asset_name == SanitizeName(filename)
             saved == [s EXCEPT !.files = @ \cup {UsdPath(asset_name)}]
             r == ScheduleUsdImport(saved, UsdPath(asset_name), asset_name,
                                    looks_ok)
         IN  [s |-> [r.s EXCEPT !.assets =
                        Append(@, AssetInfo(filename, asset_name))],
              task |-> r.task, cb |-> r.cb, check |-> r.check,
              success |-> TRUE]

\* Uploaded archives: the kinds of file an archive holds, and whether
\* zipfile fails to open it.
Archives ==
    [members : SUBSET {"obj", "mtl", "png"}, corrupt : BOOLEAN]

\* MeshUSDManager._extract_and_validate_zip.  The directory is named
\* extract_<int(time.time())> and made with exist_ok=True: same_second says
\* that the clock shows the second of the extraction before, and then the
\* directory is the one that extraction filled.  rglob looks at every file
\* of the directory.
ExtractAndValidateZip(dir, archive, same_second) ==
    LET made == IF same_second THEN dir ELSE {}
        found == IF archive.corrupt THEN made
                 ELSE made \cup archive.members
    IN  [dir |-> found,
         valid |-> ~archive.corrupt /\ "obj" \in found,
         error |-> IF archive.corrupt THEN "ZIP extraction failed"
                   ELSE IF "obj" \notin found
                   THEN "No OBJ file found in ZIP"
                   ELSE ""]

\* ------------------------------------------------------ document build
\* A material input with no texture bound, and a path no file has.
NoTexture == "none"

\* Texture files by name (texture_extensions of _extract_and_validate_zip).
TextureNames == {"png", "jpg"}

\* f with key k set to v (a dict assignment, a file written to a path).
Put(f, k, v) ==
    [x \in DOMAIN f \cup {k} |-> IF x = k THEN v ELSE f[x]]

\* mesh_prim_path = f"/{asset_name}/Mesh"
MeshPrimPath(asset_name) == <<asset_name, "Mesh">>

\* material_name = f"{Path(mesh_prim_path).name}_Material"
MaterialName(mesh_prim_path) ==
    <<mesh_prim_path[Len(mesh_prim_path)], "Material">>

\* MeshUSDManager._copy_texture_to_persistent_location: the copy goes to
\* temp_dir/textures/<material_name>_<source_name>; a missing source or a
\* failed copy returns None.  content names the bytes copied.
CopyTextureToPersistentLocation(disk, source, material_name, content, ok) ==
    IF ~ok
    THEN [path |-> NoTexture, disk |-> disk]
    ELSE LET dest == <<"textures", material_name, source>>
         IN  [path |-> dest, disk |-> Put(disk, dest, content)]

\* MeshUSDManager._create_usd_material: binds the persistent copy of
\* texture_paths[0]; when the copy fails the shader gets the constant
\* diffuseColor (0.7, 0.7, 0.7) and the method still returns True.  An
\* exception before the copy returns False.
CreateUsdMaterial(disk, first, mesh_prim_path, content, env) ==
    IF ~env.material_ok
    THEN [success |-> FALSE, texture |-> NoTexture, diffuse |-> "none",
          disk |-> disk]
    ELSE LET c == CopyTextureToPersistentLocation(
                      disk, first, MaterialName(mesh_prim_path), content,
                      env.copy_ok)
         IN  [success |-> TRUE, texture |-> c.path,
              diffuse |-> IF c.path = NoTexture THEN "constant 0.7"
                          ELSE "texture",
              disk |-> c.disk]

\* MeshUSDManager._import_obj_to_usd after the parse: the material is
\* created only with texture files and UVs; without a material the mesh
\* gets displayColor (1.0, 0.8, 0.6) when there are texture files and
\* (0.8, 0.8, 0.8) when there are none.
ImportObjToUsd(disk, files, mesh_prim_path, content, env) ==
    LET texture_paths == files \cap TextureNames
        m == IF texture_paths # {} /\ env.uvs
             THEN CreateUsdMaterial(disk, env.first, mesh_prim_path,
                                    content, env)
             ELSE [success |-> FALSE, texture |-> NoTexture,
                   diffuse |-> "none", disk |-> disk]
    IN  [success |-> env.mesh,
         doc |-> [material |-> m.success, texture |-> m.texture,
                  diffuse |-> m.diffuse,
                  display |-> IF m.success THEN "none"
                              ELSE IF texture_paths # {} THEN "orange"
                              ELSE "gray"],
         disk |-> IF env.mesh THEN m.disk ELSE disk]

\* MeshUSDManager._create_usd_asset: the stage is saved only when the mesh
\* import succeeded.
CreateUsdAsset(docs, disk, files, asset_name, content, env) ==
    LET r == ImportObjToUsd(disk, files, MeshPrimPath(asset_name), content,
                            env)
    IN  [success |-> r.success,
         docs |-> IF r.success THEN Put(docs, asset_name, r.doc) ELSE docs,
         disk |-> r.disk]

\* What the build of one bundle meets: whether the OBJ gives vertices and
\* faces, whether it gives UVs, whether the material is created, whether
\* the texture copy succeeds, and the texture rglob lists first.
BuildOutcomes(files) ==
    [mesh : BOOLEAN, uvs : BOOLEAN, material_ok : BOOLEAN,
     copy_ok : BOOLEAN,
     first : IF files \cap TextureNames = {} THEN {NoTexture}
             ELSE files \cap TextureNames]

\* Builds in which nothing but the geometry can fail.
PlainBuilds(files) ==
    {env \in BuildOutcomes(files) :
        env.uvs /\ env.material_ok /\ env.copy_ok}

\* --------------------------------------------------------- API handlers
\* One upload through MeshUSDManager.process_mesh_zip: extraction, build of
\* the document, scheduling, registration.
UploadMesh(op, filename, archive, same_second, env, looks_ok) ==
    LET e == ExtractAndValidateZip(extract_dir, archive, same_second)
        asset_name == SanitizeName(filename)
        b == IF e.valid
             THEN CreateUsdAsset(documents, textures, e.dir, asset_name,
                                 ncalls + 1, env)
             ELSE [success |-> FALSE, docs |-> documents,
                   disk |-> textures]
        r == ProcessMeshZip(Cur, filename, e.valid, b.success, looks_ok)
    IN  /\ Install(r.s)
        /\ extract_dir' = e.dir
        /\ documents' = b.docs
        /\ textures' = b.disk
        /\ returned' = [by |-> "_extract_and_validate_zip",
                        arg |-> archive, out |-> e]
        /\ last' = Call(op, asset_name, "import_callback", r.success,
                         r.check, r.task, r.cb)

\* POST /mesh/import
import_mesh ==
    /\ ncalls < MaxCalls
    /\ \E filename \in Filenames, archive \in Archives,
          same_second, looks_ok \in BOOLEAN :
          \E env \in PlainBuilds(
                 ExtractAndValidateZip(extract_dir, archive,
                                       same_second).dir) :
             UploadMesh("import_mesh", filename, archive, same_second, env,
                        looks_ok)
    /\ ncalls' = ncalls + 1
    /\ UNCHANGED <<pointclouds, typed_prims, given>>

\* POST /debug/analyze-zip: extracts and classifies, builds nothing.
analyze_zip ==
    /\ ncalls < MaxCalls
    /\ \E archive \in Archives, same_second \in BOOLEAN :
          LET e == ExtractAndValidateZip(extract_dir, archive, same_second)
          IN  /\ extract_dir' = e.dir
              /\ returned' = [by |-> "_extract_and_validate_zip",
                              arg |-> archive, out |-> e]
    /\ last' = Call("analyze_zip", <<>>, "none", TRUE, "not reached", None,
                    <<>>)
    /\ ncalls' = ncalls + 1
    /\ UNCHANGED <<import_queue, is_importing, tasks, cblog, procs,
                   uploaded_assets, usd_files, has_stage, scene,
                   scene_writers, pointclouds, typed_prims, given, documents,
                   textures>>

\* POST /debug/force-import/{asset_name}
force_import_asset ==
    /\ ncalls < MaxCalls
    /\ \E asset_name \in AssetNames, looks_ok \in BOOLEAN :
          LET i == FirstIndex(uploaded_assets, asset_name)
          IN  IF i = 0 \/ uploaded_assets[i].usd_path \notin usd_files
              THEN /\ Install(Cur)
                   /\ last' = Call("force_import", asset_name, "none",
                                    FALSE, "not reached", None, <<>>)
              ELSE LET r == ScheduleUsdImport(Cur,
                                uploaded_assets[i].usd_path, asset_name,
                                looks_ok)
                   IN  /\ Install(r.s)
                       /\ last' = Call("force_import", asset_name,
                                        "import_callback", TRUE,
                                        r.check, r.task, r.cb)
    /\ ncalls' = ncalls + 1
    /\ UNCHANGED <<pointclouds, typed_prims, extract_dir, given, documents,
                   textures, returned>>

\* A call of NonBlockingUSDImporter.schedule_import by other code running
\* on the server loop, with no callback or a callback of its own.
schedule_import ==
    /\ ncalls < MaxSchedules
    /\ \E asset_name \in ScheduledNames, callback \in {"none", "generic"},
          looks_ok \in BOOLEAN :
          LET r == ScheduleImport(Cur, ExternalUsd, asset_name, callback,
                                  looks_ok, ServerThread)
          IN  /\ Install(r.s)
              /\ last' = Call("schedule_import", asset_name, callback,
                               r.task # None, r.check, r.task, r.cb)
    /\ ncalls' = ncalls + 1
    /\ UNCHANGED <<pointclouds, typed_prims, extract_dir, given, documents,
                   textures, returned>>

\* All sequences over S of length n or less.
RECURSIVE SeqsUpTo(_, _)
SeqsUpTo(S, n) ==
    IF n = 0 THEN {<<>>}
    ELSE LET shorter == SeqsUpTo(S, n - 1)
         IN  shorter \cup {Append(q, x) : q \in shorter, x \in S}

\* ----------------------------------------------------- numeric tokens
\* A line of a text file is the sequence of its whitespace-separated tokens
\* (line.split()), a token a sequence of characters.
DigitValue(c) ==
    CASE c = "0" -> 0 [] c = "1" -> 1 [] c = "2" -> 2 [] c = "3" -> 3
      [] c = "4" -> 4 [] c = "5" -> 5 [] c = "6" -> 6 [] c = "7" -> 7
      [] c = "8" -> 8 [] c = "9" -> 9

IsDigits(s) == s # <<>> /\ \A i \in 1..Len(s) : s[i] \in Digits

RECURSIVE Decimal(_)
Decimal(s) ==
    IF s = <<>> THEN 0
    ELSE 10 * Decimal(SubSeq(s, 1, Len(s) - 1)) + DigitValue(s[Len(s)])

\* int(token): the value, or ValueError (ok is FALSE).
ParseInt(token) ==
    IF IsDigits(token) THEN [ok |-> TRUE, value |-> Decimal(token)]
    ELSE IF token # <<>> /\ token[1] = "-" /\ IsDigits(Tail(token))
    THEN [ok |-> TRUE, value |-> 0 - Decimal(Tail(token))]
    ELSE [ok |-> FALSE, value |-> 0]

\* float(token), for tokens without fraction or exponent.
ParseFloat(token) == ParseInt(token)

\* part.split('/')[0]
RECURSIVE FirstField(_)
FirstField(part) ==
    IF part = <<>> \/ part[1] = "/" THEN <<>>
    ELSE <<part[1]>> \o FirstField(Tail(part))

\* parts[a:b] of a Python list, a and b zero-based.
Slice(parts, a, b) ==
    SubSeq(parts, a + 1, IF b < Len(parts) THEN b ELSE Len(parts))

NoGeometry ==
    [vertices |-> <<>>, faces |-> <<>>, uvs |-> <<>>, normals |-> <<>>,
     error |-> FALSE]

\* The body of the face branch up to face_indices: int(indices[0]) - 1 for
\* every corner; ok is FALSE when an int() raised.
FaceIndices(parts) ==
    LET ints == [i \in 1..Len(parts) |-> ParseInt(FirstField(parts[i]))]
    IN  [ok |-> \A i \in 1..Len(parts) : ints[i].ok,
         indices |-> [i \in 1..Len(parts) |-> ints[i].value - 1]]

\* float() of the first n parts; ok is FALSE when one raised.
Floats(parts, n) ==
    LET fs == [i \in 1..n |-> ParseFloat(parts[i])]
    IN  [ok |-> \A i \in 1..n : fs[i].ok,
         values |-> [i \in 1..n |-> fs[i].value]]

\* ------------------------------------------------- RoWorksSceneManager
\* Point-cloud file names handed to the scene manager.  Both give the same
\* safe name, and so the same prim path.
PointCloudFiles ==
    { <<"p", "-", "c", ".", "x", "y", "z">>,
      <<"p", " ", "c", ".", "p", "l", "y">> }

\* Path(file_name).stem.replace(" ", "_").replace("-", "_")
SafeName(file_name) ==
    LET stem == Stem(file_name)
    IN  [i \in 1..Len(stem) |->
            IF stem[i] \in {" ", "-"} THEN "_" ELSE stem[i]]

\* Prim paths under /World/RoWorks/PointClouds, named by their last part.
PointCloudPaths == {SafeName(f) : f \in PointCloudFiles}

\* SceneObject(file_name, "pointcloud", prim_path, file_path)
SceneObject(file_name, prim_path) ==
    [name |-> file_name, prim_path |-> prim_path]

\* RoWorksSceneManager.add_scene_object: _scene_objects is a dict keyed by
\* prim path, so an object recorded under the same path is overwritten.
AddSceneObject(objects, obj) ==
    {o \in objects : o.prim_path # obj.prim_path} \cup {obj}

\* Lines of an .xyz file read by RoWorksSceneManager._import_xyz_pointcloud:
\* the code reads while line_num <= 50000.
SceneLineLimit == 2

\* Lines of an .xyz file read by PolycamProcessor._import_pointcloud_to_usd:
\* the code reads while line_num <= 100000.
PolycamLineLimit == 3

\* Point coordinates are kept in halves, so that the 0.5 of the sample
\* points is a whole number.
Halves(values) == [i \in 1..Len(values) |-> 2 * values[i]]

\* The loop of _import_xyz_pointcloud from line i on (line_num is i - 1).
RECURSIVE ReadXyz(_, _, _)
ReadXyz(lines, i, points) ==
    IF i > Len(lines) \/ i - 1 > SceneLineLimit THEN points
    ELSE LET parts == lines[i]
             f == Floats(parts, 3)
         IN  IF Len(parts) >= 3 /\ f.ok
             THEN ReadXyz(lines, i + 1, Append(points, Halves(f.values)))
             ELSE ReadXyz(lines, i + 1, points)

\* RoWorksSceneManager._import_xyz_pointcloud: the points written to the
\* stage and the value returned.
ImportXyzPointcloud(lines) ==
    LET points == ReadXyz(lines, 1, <<>>)
    IN  [by |-> "_import_xyz_pointcloud", points |-> points,
         success |-> points # <<>>]

\* sample_points of _create_pointcloud_placeholder
SamplePoints ==
    << <<0, 0, 0>>, <<2, 0, 0>>, <<0, 2, 0>>, <<0, 0, 2>>, <<2, 2, 0>>,
       <<2, 0, 2>>, <<0, 2, 2>>, <<2, 2, 2>>, <<1, 1, 1>>, <<-1, 1, 1>> >>

\* RoWorksSceneManager._create_pointcloud_placeholder
CreatePointcloudPlaceholder ==
    [by |-> "_create_pointcloud_placeholder", points |-> SamplePoints,
     success |-> TRUE]

\* Path(file_path).suffix of a name without directory part
Suffix(s) ==
    LET i == RFindDot(s, Len(s))
    IN  IF 1 < i /\ i < Len(s) THEN SubSeq(s, i, Len(s)) ELSE <<>>

\* RoWorksSceneManager.import_pointcloud_file of a file with the given
\* lines, when the host has a stage.
ImportPointcloudFile(file_name, lines) ==
    /\ ncalls < MaxCalls
    /\ has_stage
    /\ LET prim_path == SafeName(file_name)
           r == IF Suffix(file_name) = <<".", "x", "y", "z">>
                THEN ImportXyzPointcloud(lines)
                ELSE CreatePointcloudPlaceholder
       IN  /\ typed_prims' = IF r.success THEN typed_prims \cup {prim_path}
                             ELSE typed_prims
           /\ pointclouds' =
                 IF r.success
                 THEN AddSceneObject(pointclouds,
                                     SceneObject(file_name, prim_path))
                 ELSE pointclouds
           /\ returned' = [by |-> r.by, out |-> r]
           /\ last' = Call("import_pointcloud_file", prim_path, "none",
                           r.success, "not reached", None, <<>>)
    /\ ncalls' = ncalls + 1
    /\ UNCHANGED <<import_queue, is_importing, tasks, cblog, procs,
                   uploaded_assets, usd_files, has_stage, scene,
                   scene_writers, extract_dir, given, documents, textures>>

\* Contents of the point-cloud files handed to the running service: no
\* line, or one line that holds a point.
UploadedXyz == { <<>>, << <<<<"1">>, <<"0">>, <<"0">>>> >> }

import_pointcloud_file ==
    \E file_name \in PointCloudFiles, lines \in UploadedXyz :
        ImportPointcloudFile(file_name, lines)

\* RoWorksSceneManager.remove_scene_object
remove_scene_object ==
    /\ ncalls < MaxCalls
    /\ \E prim_path \in PointCloudPaths :
          /\ typed_prims' = IF has_stage THEN typed_prims \ {prim_path}
                            ELSE typed_prims
          /\ pointclouds' = {o \in pointclouds : o.prim_path # prim_path}
          /\ last' = Call("remove_scene_object", prim_path, "none", TRUE,
                           "not reached", None, <<>>)
    /\ ncalls' = ncalls + 1
    /\ UNCHANGED <<import_queue, is_importing, tasks, cblog, procs,
                   uploaded_assets, usd_files, has_stage, scene,
                   scene_writers, extract_dir, given, documents, textures, returned>>

\* RoWorksSceneManager.clear_scene: deletes the prims that carry the
\* roworks:file_type attribute, then empties _scene_objects.  The prims the
\* importer writes carry roworks:source_file and roworks:asset_type only.
ClearScene(stage, prims, objects) ==
    IF ~stage
    THEN [prims |-> prims, objects |-> objects, ok |-> FALSE]
    ELSE [prims |-> {}, objects |-> {}, ok |-> TRUE]

\* DELETE /assets/clear, with MeshUSDManager.scene_manager set.  The handler
\* runs on the server thread.
clear_assets ==
    /\ ncalls < MaxCalls
    /\ LET r == ClearScene(has_stage, typed_prims, pointclouds)
       IN  /\ Install([Cur EXCEPT
                  !.assets = <<>>,
                  !.writers = IF has_stage /\ typed_prims # {}
                              THEN @ \cup {ServerThread} ELSE @])
           /\ typed_prims' = r.prims
           /\ pointclouds' = r.objects
           /\ last' = Call("clear_assets", <<>>, "none", TRUE, "not reached",
                            None, <<>>)
    /\ ncalls' = ncalls + 1
    /\ UNCHANGED <<extract_dir, given, documents, textures, returned>>

\* ------------------------------------------- steps of the processor
ImportPcs == {"stage_wait", "ref_parent", "ref_removed", "ref_defined",
              "ref_referenced", "ref_attrs"}

\* ProcStart without the "if self.is_importing: return" guard.
ProcStart_NoGuard(p) ==
    /\ procs[p].pc = "pending"
    /\ Install(LoopHead([Cur EXCEPT !.importing = TRUE], p))
    /\ UNCHANGED <<pointclouds, typed_prims, extract_dir, given,
                   documents, textures, returned,
                   last, ncalls>>

\* _process_import_queue from its start to its first await.
ProcStart(p) ==
    /\ procs[p].pc = "pending"
    /\ IF is_importing
       THEN Install([Cur EXCEPT !.procs[p].pc = "skipped"])
       ELSE Install(LoopHead([Cur EXCEPT !.importing = TRUE], p))
    /\ UNCHANGED <<pointclouds, typed_prims, extract_dir, given,
                   documents, textures, returned,
                   last, ncalls>>

\* _do_reference_import resumed after an await, up to its next await or
\* its return.
DoReferenceImport(s, p) ==
    LET t == s.procs[p].task
        name == s.tasks[t].asset_name
        prim == s.scene.prims[SanitizeName(name)]
        pc == s.procs[p].pc
    IN  CASE pc = "stage_wait" ->
               \* context.new_stage() has or has not produced a stage
               { [EnsurePathExists([s EXCEPT !.stage = TRUE], p)
                     EXCEPT !.procs[p].pc = "ref_parent"] }
               \cup FinishImport(s, p, FALSE, "Cannot get or create stage")
          [] pc = "ref_parent" ->
               IF prim # "absent"
               THEN { [RemovePrim(s, p, name)
                         EXCEPT !.procs[p].pc = "ref_removed"] }
               ELSE { [WritePrim(s, p, name, "defined")
                         EXCEPT !.procs[p].pc = "ref_defined"] }
          [] pc = "ref_removed" ->
               { [WritePrim(s, p, name,
                            IF prim = "absent" THEN "defined" ELSE prim)
                     EXCEPT !.procs[p].pc = "ref_defined"] }
          [] pc = "ref_defined" ->
               IF prim = "absent"
               THEN FinishImport(s, p, FALSE, "Import error")
               ELSE { [AddReference(s, p, name, s.tasks[t].usd_path)
                         EXCEPT !.procs[p].pc = "ref_referenced"] }
          [] pc = "ref_referenced" ->
               IF prim = "absent"
               THEN FinishImport(s, p, FALSE, "Import error")
               ELSE { [WritePrim(s, p, name, "complete")
                         EXCEPT !.procs[p].pc = "ref_attrs"] }
          [] pc = "ref_attrs" ->
               FinishImport(s, p, TRUE, "Reference created successfully")

ImportResume(p) ==
    /\ procs[p].pc \in ImportPcs
    /\ \E s \in DoReferenceImport(Cur, p) : Install(s)
    /\ UNCHANGED <<pointclouds, typed_prims, extract_dir, given,
                   documents, textures, returned,
                   last, ncalls>>

\* asyncio.wait_for gives up: _import_via_reference returns the timeout
\* message.
ImportTimeout(p) ==
    /\ procs[p].pc \in ImportPcs
    /\ \E s \in FinishImport(Cur, p, FALSE, "Import timeout") : Install(s)
    /\ UNCHANGED <<pointclouds, typed_prims, extract_dir, given,
                   documents, textures, returned,
                   last, ncalls>>

\* An await or a stage call inside _do_reference_import raises:
\* _import_via_reference returns "Import error: ...".
ImportRaise(p) ==
    /\ procs[p].pc \in ImportPcs
    /\ \E s \in FinishImport(Cur, p, FALSE, "Import error") : Install(s)
    /\ UNCHANGED <<pointclouds, typed_prims, extract_dir, given,
                   documents, textures, returned,
                   last, ncalls>>

\* "await app.next_update_async(); await asyncio.sleep(0.2)" returns.
YieldReturn(p) ==
    /\ procs[p].pc = "yield"
    /\ Install(LoopHead(Cur, p))
    /\ UNCHANGED <<pointclouds, typed_prims, extract_dir, given,
                   documents, textures, returned,
                   last, ncalls>>

\* "await app.next_update_async()" raises.
YieldRaise(p) ==
    /\ procs[p].pc = "yield"
    /\ \E s \in ExceptPath(Cur, p, "yield error") : Install(s)
    /\ UNCHANGED <<pointclouds, typed_prims, extract_dir, given,
                   documents, textures, returned,
                   last, ncalls>>

\* A resumption of a suspended _process_import_queue coroutine by its loop.
ProcStep ==
    \/ \E p \in 1..Len(procs) : ProcStart(p)
    \/ \E p \in 1..Len(procs) : ImportResume(p)
    \/ \E p \in 1..Len(procs) : ImportTimeout(p)
    \/ \E p \in 1..Len(procs) : ImportRaise(p)
    \/ \E p \in 1..Len(procs) : YieldReturn(p)
    \/ \E p \in 1..Len(procs) : YieldRaise(p)

\* The service: the API handlers and the importer they drive.
Next ==
    \/ import_mesh
    \/ analyze_zip
    \/ force_import_asset
    \/ import_pointcloud_file
    \/ remove_scene_object
    \/ clear_assets
    \/ ProcStep

Spec == Init /\ [][Next]_vars

\* The importer alone, driven by calls of schedule_import.
ImporterNext ==
    \/ schedule_import
    \/ ProcStep

ImporterSpec == Init /\ [][ImporterNext]_vars

\* ---------------------------------------------------------- BuildSpec
\* MeshUSDManager.process_mesh_zip called directly with bundles that hold
\* an OBJ file, under every outcome of the build.
Bundles ==
    [members : {m \in SUBSET {"obj", "png", "jpg"} : "obj" \in m},
     corrupt : {FALSE}]

process_mesh_zip ==
    /\ ncalls < MaxCalls
    /\ \E filename \in Filenames, archive \in Bundles,
          same_second, looks_ok \in BOOLEAN :
          \E env \in BuildOutcomes(
                 ExtractAndValidateZip(extract_dir, archive,
                                       same_second).dir) :
             UploadMesh("process_mesh_zip", filename, archive, same_second,
                        env, looks_ok)
    /\ ncalls' = ncalls + 1
    /\ UNCHANGED <<pointclouds, typed_prims, given>>

BuildInit == ServiceInit /\ has_stage = TRUE /\ given = <<>> /\ returned = NotRun

BuildNext == process_mesh_zip

BuildSpec == BuildInit /\ [][BuildNext]_vars

\* -------------------------------------------------------- PolycamSpec
\* Polycam archives: the files they hold, and whether zipfile opens them.
PolycamArchives ==
    [members : SUBSET {"obj", "mtl", "png", "jpg"}, corrupt : BOOLEAN]

\* The files of directory dir on the disk.
FilesIn(disk, dir) == {p \in DOMAIN disk : p[1] = dir}

\* PolycamProcessor.extract_polycam_zip: tempfile.mkdtemp gives a fresh
\* directory, named here by the number of the call.
ExtractPolycamZip(disk, archive, n) ==
    LET dir == <<"polycam", n>>
        files == IF archive.corrupt THEN {} ELSE archive.members
    IN  [success |-> "obj" \in files,
         temp_dir |-> dir,
         files |-> files,
         disk |-> [p \in DOMAIN disk \cup {<<dir, f>> : f \in files} |->
                      IF p \in DOMAIN disk THEN disk[p] ELSE n]]

\* PolycamProcessor._create_material: the first texture path, a path in
\* the extraction directory, is set as the "file" input as it is.
CreateMaterial(temp_dir, first, material_ok) ==
    IF material_ok
    THEN [material |-> TRUE, texture |-> <<temp_dir, first>>,
          diffuse |-> "texture", display |-> "none"]
    ELSE [material |-> FALSE, texture |-> NoTexture, diffuse |-> "none",
          display |-> "none"]

\* PolycamProcessor.create_usd_from_polycam with _import_mesh_to_usd: the
\* material is created when there are an MTL file and texture files; the
\* stage is saved whatever the mesh import returned.
CreateUsdFromPolycam(docs, e, asset_name, env) ==
    IF ~env.stage_ok
    THEN [success |-> FALSE, docs |-> docs]
    ELSE LET texture_paths == e.files \cap TextureNames
             doc == IF env.mesh /\ "mtl" \in e.files /\ texture_paths # {}
                    THEN CreateMaterial(e.temp_dir, env.first,
                                        env.material_ok)
                    ELSE CreateMaterial(e.temp_dir, env.first, FALSE)
         IN  [success |-> TRUE, docs |-> Put(docs, asset_name, doc)]

\* PolycamProcessor.cleanup: rmtree of every directory of temp_dirs; a
\* failed rmtree is logged and the directory stays.
Cleanup(disk, temp_dir, rmtree_ok) ==
    IF rmtree_ok
    THEN [p \in DOMAIN disk \ FilesIn(disk, temp_dir) |-> disk[p]]
    ELSE disk

\* What one Polycam import meets.
PolycamOutcomes(files) ==
    [stage_ok : BOOLEAN, mesh : BOOLEAN, material_ok : BOOLEAN,
     rmtree_ok : BOOLEAN,
     first : IF files \cap TextureNames = {} THEN {NoTexture}
             ELSE files \cap TextureNames]

\* EnhancedPolycamImporter.import_polycam_zip, with its finally clause.
\* The scene manager has no import_usd_asset: the call raises and the
\* method returns a failure after the document was saved.
import_polycam_zip ==
    /\ ncalls < MaxCalls
    /\ \E filename \in Filenames, archive \in PolycamArchives :
          LET asset_name == Stem(PathName(filename))
              e == ExtractPolycamZip(textures, archive, ncalls + 1)
          IN  \E env \in PolycamOutcomes(e.files) :
                 LET b == IF e.success
                          THEN CreateUsdFromPolycam(documents, e,
                                                    asset_name, env)
                          ELSE [success |-> FALSE, docs |-> documents]
                 IN  /\ documents' = b.docs
                     /\ textures' = Cleanup(e.disk, e.temp_dir,
                                             env.rmtree_ok)
                     /\ returned' = [by |-> "extract_polycam_zip",
                                     arg |-> archive,
                                     out |-> [success |-> e.success,
                                              files |-> e.files]]
                     /\ last' = Call("import_polycam_zip", asset_name,
                                      "none", FALSE, "not reached", None,
                                      <<>>)
    /\ ncalls' = ncalls + 1
    /\ UNCHANGED <<import_queue, is_importing, tasks, cblog, procs,
                   uploaded_assets, usd_files, has_stage, scene,
                   scene_writers, pointclouds, typed_prims, extract_dir,
                   given>>

PolycamInit == ServiceInit /\ has_stage = TRUE /\ given = <<>> /\ returned = NotRun

PolycamNext == import_polycam_zip

PolycamSpec == PolycamInit /\ [][PolycamNext]_vars

TypeOK ==
    /\ is_importing \in BOOLEAN
    /\ \A i \in 1..Len(import_queue) : import_queue[i] \in 1..Len(tasks)
    /\ Len(cblog) = Len(tasks)

\* ============================================================ OBJ parsers
\* The text of an OBJ file is a sequence of lines, a line the sequence of its
\* whitespace-separated tokens (line.split()), a token a sequence of
\* characters.  A line "starts with 'v '" when its first token is v.

\* Lines of one OBJ file.
MaxLines == 4

\* Corners of one face line.
MaxCorners == 5

\* line.startswith(kw + ' '), for a stripped line
StartsWith(line, kw) == Len(line) >= 2 /\ line[1] = kw

Skipped(acc) == [acc |-> acc, raised |-> FALSE]
Raised(acc) == [acc |-> acc, raised |-> TRUE]

\* One pass of the loop body of MeshUSDManager._parse_obj_file.
MeshLine(acc, line) ==
    IF StartsWith(line, <<"v">>)
    THEN LET parts == Slice(Tail(line), 0, 3)
             f == Floats(parts, 3)
         IN  IF Len(parts) < 3 THEN Skipped(acc)
             ELSE IF ~f.ok THEN Raised(acc)
             ELSE Skipped([acc EXCEPT !.vertices = Append(@, f.values)])
    ELSE IF StartsWith(line, <<"v", "t">>)
    THEN LET parts == Slice(Tail(line), 0, 2)
             f == Floats(parts, 2)
         IN  IF Len(parts) < 2 THEN Skipped(acc)
             ELSE IF ~f.ok THEN Raised(acc)
             ELSE Skipped([acc EXCEPT !.uvs =
                              Append(@, <<f.values[1], 1 - f.values[2]>>)])
    ELSE IF StartsWith(line, <<"v", "n">>)
    THEN LET parts == Slice(Tail(line), 0, 3)
             f == Floats(parts, 3)
         IN  IF Len(parts) < 3 THEN Skipped(acc)
             ELSE IF ~f.ok THEN Raised(acc)
             ELSE Skipped([acc EXCEPT !.normals = Append(@, f.values)])
    ELSE IF StartsWith(line, <<"f">>)
    THEN LET face == FaceIndices(Tail(line))
             c == face.indices
         IN  IF ~face.ok THEN Raised(acc)
             ELSE IF Len(c) = 3
             THEN Skipped([acc EXCEPT !.faces = @ \o c])
             ELSE IF Len(c) = 4
             THEN Skipped([acc EXCEPT !.faces =
                              @ \o <<c[1], c[2], c[3]>>
                                \o <<c[1], c[3], c[4]>>])
             ELSE Skipped(acc)
    ELSE Skipped(acc)

\* One pass of the loop body of PolycamProcessor._parse_obj_file: parts[i]
\* of a short line raises IndexError, and a face adds all its corners.
PolycamLine(acc, line) ==
    IF StartsWith(line, <<"v">>)
    THEN LET parts == Slice(Tail(line), 0, 3)
             f == Floats(parts, 3)
         IN  IF Len(parts) < 3 \/ ~f.ok THEN Raised(acc)
             ELSE Skipped([acc EXCEPT !.vertices = Append(@, f.values)])
    ELSE IF StartsWith(line, <<"v", "t">>)
    THEN LET parts == Slice(Tail(line), 0, 2)
             f == Floats(parts, 2)
         IN  IF Len(parts) < 2 \/ ~f.ok THEN Raised(acc)
             ELSE Skipped([acc EXCEPT !.uvs = Append(@, f.values)])
    ELSE IF StartsWith(line, <<"v", "n">>)
    THEN LET parts == Slice(Tail(line), 0, 3)
             f == Floats(parts, 3)
         IN  IF Len(parts) < 3 \/ ~f.ok THEN Raised(acc)
             ELSE Skipped([acc EXCEPT !.normals = Append(@, f.values)])
    ELSE IF StartsWith(line, <<"f">>)
    THEN LET face == FaceIndices(Tail(line))
         IN  IF ~face.ok THEN Raised(acc)
             ELSE Skipped([acc EXCEPT !.faces = @ \o face.indices])
    ELSE Skipped(acc)

Parsers == {"MeshUSDManager", "PolycamProcessor"}

\* "for line in f" inside the single try of _parse_obj_file: the first
\* exception ends the loop, and what was collected so far is returned.
RECURSIVE ParseLines(_, _, _, _)
ParseLines(by, lines, i, acc) ==
    IF i > Len(lines) THEN acc
    ELSE LET r == IF by = "MeshUSDManager" THEN MeshLine(acc, lines[i])
                  ELSE PolycamLine(acc, lines[i])
         IN  IF r.raised THEN [r.acc EXCEPT !.error = TRUE]
             ELSE ParseLines(by, lines, i + 1, r.acc)

\* _parse_obj_file of either class.
ParseObjFile(by, lines) == ParseLines(by, lines, 1, NoGeometry)

\* PolycamProcessor._group_faces: the index list cut into groups of three
\* from its start, a shorter rest left out.
GroupFaces(face_indices) ==
    LET starts == {i \in 0..(Len(face_indices) - 1) :
                      i % 3 = 0 /\ i + 2 < Len(face_indices)}
    IN  [k \in 1..Cardinality(starts) |->
            <<face_indices[3 * k - 2], face_indices[3 * k - 1],
              face_indices[3 * k]>>]

\* The faceVertexCounts written beside the index list:
\* [3] * (len(faces) // 3) in MeshUSDManager._import_obj_to_usd,
\* [len(face) for face in self._group_faces(faces)] in
\* PolycamProcessor._import_mesh_to_usd.
FaceVertexCounts(by, faces) ==
    IF by = "MeshUSDManager"
    THEN [k \in 1..(Len(faces) \div 3) |-> 3]
    ELSE [k \in 1..Len(GroupFaces(faces)) |-> Len(GroupFaces(faces)[k])]

\* ------------------------------------------------- OBJ files parsed
DigitChar(n) == CHOOSE c \in Digits : DigitValue(c) = n

\* str(n) for a one-digit n, negative or not
Numeral(n) == IF n < 0 THEN <<"-", DigitChar(0 - n)>> ELSE <<DigitChar(n)>>

\* A face line whose n corners are first, first + 1, ...
Run(first, n) == << <<"f">> >> \o [i \in 1..n |-> Numeral(first + i - 1)]

VertexLines ==
    { << <<"v">>, <<"1">>, <<"2">>, <<"3">> >>,
      << <<"v">>, <<"1">>, <<"x">>, <<"3">> >>,
      << <<"v">>, <<"1">>, <<"2">> >> }

FaceLines ==
    {Run(first, n) : first \in {0, 1}, n \in 2..MaxCorners}
    \cup { << <<"f">>, <<"-", "1">>, <<"1">>, <<"2">> >>,
           << <<"f">>, <<"1", "/", "1">>, <<"2", "/", "2">>,
              <<"3", "/", "3">> >>,
           << <<"f">>, <<"1">>, <<"2">>, <<"x">> >> }

OtherLines ==
    { << <<"v", "t">>, <<"0">>, <<"1">> >>,
      << <<"v", "n">>, <<"0">>, <<"0">>, <<"1">> >>,
      << <<"#">> >> }

ObjLines == VertexLines \cup FaceLines \cup OtherLines

ObjFiles == SeqsUpTo(ObjLines, MaxLines)

ObjInit ==
    /\ ServiceInit
    /\ has_stage = FALSE
    /\ given \in ObjFiles
    /\ returned = NotRun

\* MeshUSDManager._parse_obj_file(obj_path) on the file given
parse_obj_file ==
    /\ returned.by = "none"
    /\ returned' = [by |-> "MeshUSDManager",
                    out |-> ParseObjFile("MeshUSDManager", given)]
    /\ UNCHANGED <<service_vars, given>>

\* PolycamProcessor._parse_obj_file(obj_path) on the file given
polycam_parse_obj_file ==
    /\ returned.by = "none"
    /\ returned' = [by |-> "PolycamProcessor",
                    out |-> ParseObjFile("PolycamProcessor", given)]
    /\ UNCHANGED <<service_vars, given>>

ObjNext ==
    \/ parse_obj_file
    \/ polycam_parse_obj_file

ObjSpec == ObjInit /\ [][ObjNext]_vars

\* ====================================================== point-cloud files
\* Lines of one .xyz file.
MaxXyzLines == 5

White == [rgb |-> <<1, 1, 1>>, per |-> 1]

\* "if r > 1.0 or g > 1.0 or b > 1.0: r, g, b = r/255.0, g/255.0, b/255.0":
\* the channels and what they are divided by.
Colour(rgb) ==
    IF \E i \in 1..3 : rgb[i] > 1 THEN [rgb |-> rgb, per |-> 255]
    ELSE [rgb |-> rgb, per |-> 1]

\* The loop of PolycamProcessor._import_pointcloud_to_usd from line i on.
\* The point is appended before the colour fields are converted, so a
\* ValueError in a colour field leaves the point without a colour.
RECURSIVE PolycamReadXyz(_, _, _)
PolycamReadXyz(lines, i, acc) ==
    IF i > Len(lines) \/ i - 1 > PolycamLineLimit THEN acc
    ELSE LET parts == lines[i]
             f == Floats(parts, 3)
             c == Floats(SubSeq(parts, 4, 6), 3)
             pointed == [acc EXCEPT !.points = Append(@, Halves(f.values))]
         IN  IF Len(parts) < 3 \/ ~f.ok
             THEN PolycamReadXyz(lines, i + 1, acc)
             ELSE IF Len(parts) < 6
             THEN PolycamReadXyz(lines, i + 1,
                     [pointed EXCEPT !.colors = Append(@, White)])
             ELSE IF ~c.ok
             THEN PolycamReadXyz(lines, i + 1, pointed)
             ELSE PolycamReadXyz(lines, i + 1,
                     [pointed EXCEPT !.colors = Append(@, Colour(c.values))])

\* PolycamProcessor._import_pointcloud_to_usd: what is set on the Points
\* prim and the value returned.
ImportPointcloudToUsd(lines) ==
    LET r == PolycamReadXyz(lines, 1, [points |-> <<>>, colors |-> <<>>])
    IN  IF r.points = <<>>
        THEN [by |-> "_import_pointcloud_to_usd", points |-> <<>>,
              colors |-> <<>>, success |-> FALSE]
        ELSE [by |-> "_import_pointcloud_to_usd", points |-> r.points,
              colors |-> r.colors, success |-> TRUE]

XyzLines ==
    { << <<"1">>, <<"0">>, <<"0">> >>,
      << <<"2">>, <<"0">>, <<"0">> >>,
      << <<"4">>, <<"0">>, <<"0">>, <<"2", "5", "5">>, <<"0">>, <<"0">> >>,
      << <<"5">>, <<"0">>, <<"0">>, <<"x">>, <<"0">>, <<"0">> >>,
      << <<"x">>, <<"0">>, <<"0">> >>,
      << <<"1">>, <<"2">> >> }

XyzFiles == SeqsUpTo(XyzLines, MaxXyzLines)

PointCloudInit ==
    /\ ServiceInit
    /\ has_stage = TRUE
    /\ given \in XyzFiles
    /\ returned = NotRun

\* RoWorksSceneManager.import_pointcloud_file of a file with the lines given
import_given_pointcloud ==
    \E file_name \in PointCloudFiles : ImportPointcloudFile(file_name, given)

\* PolycamProcessor._import_pointcloud_to_usd of a file with the lines given
import_pointcloud_to_usd ==
    /\ returned.by = "none"
    /\ returned' = [by |-> "_import_pointcloud_to_usd",
                    out |-> ImportPointcloudToUsd(given)]
    /\ UNCHANGED <<service_vars, given>>

PointCloudNext ==
    \/ import_given_pointcloud
    \/ import_pointcloud_to_usd

PointCloudSpec == PointCloudInit /\ [][PointCloudNext]_vars

\* ================================================================= names
\* Characters of one name handed to _sanitize_name.
MaxNameLen == 4

NameChars == {"a", "1", "_", ".", "/", "-"}

Names == SeqsUpTo(NameChars, MaxNameLen)

NameInit ==
    /\ ServiceInit
    /\ has_stage = FALSE
    /\ given \in Names
    /\ returned = NotRun

\* MeshUSDManager._sanitize_name(filename), as process_mesh_zip calls it on
\* the upload's file name.
sanitize_name ==
    /\ returned.by = "none"
    /\ returned' = [by |-> "MeshUSDManager._sanitize_name", arg |-> given,
                    out |-> SanitizeName(given)]
    /\ UNCHANGED <<service_vars, given>>

\* NonBlockingUSDImporter._sanitize_name(asset_name), as
\* _do_reference_import calls it: on the asset name the manager made, or on
\* the name another caller of schedule_import passed.
importer_sanitize_name ==
    /\ returned.by # "NonBlockingUSDImporter._sanitize_name"
    /\ LET asset_name == IF returned.by = "none" THEN given ELSE returned.out
       IN  returned' = [by |-> "NonBlockingUSDImporter._sanitize_name",
                        arg |-> asset_name, out |-> SanitizeName(asset_name)]
    /\ UNCHANGED <<service_vars, given>>

NameNext ==
    \/ sanitize_name
    \/ importer_sanitize_name

NameSpec == NameInit /\ [][NameNext]_vars

\* ================================================================ claims
Terminal == {"completed", "failed", "timeout"}

Active == ImportPcs \cup {"yield"}

Processing == {t \in 1..Len(tasks) : tasks[t].status = "processing"}

InLoop == {p \in 1..Len(procs) : procs[p].pc \in Active}

\* C1: at most one task has status "processing" and at most one run of
\* _process_import_queue is inside its loop; a run that starts while
\* is_importing is true ends at once and takes no task.
C1_SingleFlight ==
    /\ [](Cardinality(Processing) <= 1 /\ Cardinality(InLoop) <= 1)
    /\ [][\A p \in 1..Len(procs) :
            (procs[p].pc = "pending" /\ procs'[p].pc # "pending"
                /\ is_importing)
            => /\ procs'[p].pc = "skipped"
               /\ import_queue' = import_queue
               /\ tasks' = tasks]_vars

\* A second run has returned at its guard while the first is importing and
\* a task still waits.
C1_Witness ==
    \E p, q \in 1..Len(procs) :
        /\ procs[p].pc \in ImportPcs
        /\ procs[q].pc = "skipped"
        /\ import_queue # <<>>
        /\ Cardinality(Processing) = 1

\* A task whose processing is over.  The code marks it completed or failed
\* and, when the callback or the pause after it raises, overwrites that
\* with "error" before the run goes on (see C4).
Finished(t) == tasks[t].status \in Terminal \cup {"error"}

\* C2: for tasks T1, T2 accepted in that order, T2 does not leave "queued"
\* before the processing of T1 is over, and tasks are taken from the queue
\* in the order they were appended: the queue always holds exactly the tasks
\* still "queued", which are the latest ones accepted, in acceptance order,
\* and a step that takes a task out of "queued" takes the head of the queue.
C2_Fifo ==
    /\ [](\A i, j \in 1..Len(tasks) :
            (i < j /\ tasks[j].status # "queued") => Finished(i))
    /\ [](\A k \in 1..Len(import_queue) :
            /\ import_queue[k] = Len(tasks) - Len(import_queue) + k
            /\ tasks[import_queue[k]].status = "queued")
    /\ [](\A t \in 1..Len(tasks) :
            tasks[t].status = "queued" => t > Len(tasks) - Len(import_queue))
    /\ [][\A t \in 1..Len(tasks) :
            (tasks[t].status = "queued" /\ tasks'[t].status # "queued")
            => /\ t = Head(import_queue)
               /\ import_queue' = Tail(import_queue)
               /\ tasks'[t].status = "processing"]_vars

\* The second task is being processed after the first one has finished.
C2_Witness ==
    /\ Len(tasks) >= 2
    /\ tasks[1].status \in Terminal
    /\ tasks[2].status = "processing"

\* C7: when the safety check of schedule_import fails, the task does not
\* enter the queue: the call leaves the queue, the task list, is_importing
\* and the processors as they were, returns no task, and has invoked the
\* callback it was given once, with success = false.
C7_RejectedNeverQueued ==
    [][(ncalls' # ncalls /\ last'.check = "rejected")
        => /\ import_queue' = import_queue
           /\ tasks' = tasks
           /\ cblog' = cblog
           /\ is_importing' = is_importing
           /\ procs' = procs
           /\ last'.task = None
           /\ (last'.callback # "none"
                 => /\ Len(last'.cb) = 1
                    /\ last'.cb[1].success = FALSE)]_vars

\* A call with a callback has been rejected while another task was waiting
\* in the queue.
C7_Witness ==
    /\ last.check = "rejected"
    /\ last.callback # "none"
    /\ last.cb # <<>>
    /\ import_queue # <<>>

\* No run of _process_import_queue is pending or inside its loop.
NoProcessor ==
    \A p \in 1..Len(procs) : procs[p].pc \notin Active \cup {"pending"}

\* C3: every upload accepted by process_mesh_zip has a record whose
\* import_status becomes terminal: when the importer has come to rest (empty
\* queue, no processor pending or running) no record is left with a
\* non-terminal import_status.
C3_UploadsResolve ==
    (import_queue = <<>> /\ NoProcessor)
    => \A i \in 1..Len(uploaded_assets) :
          uploaded_assets[i].import_status \in Terminal

\* C4: a task's status only moves queued -> processing -> one of completed,
\* failed, timeout; no other value occurs and a terminal status never
\* changes.
C4_StatusMachine ==
    /\ [](\A t \in 1..Len(tasks) :
            tasks[t].status \in {"queued", "processing"} \cup Terminal)
    /\ [][\A t \in 1..Len(tasks) :
            tasks'[t].status # tasks[t].status
            => \/ tasks[t].status = "queued"
                  /\ tasks'[t].status = "processing"
               \/ tasks[t].status = "processing"
                  /\ tasks'[t].status \in Terminal]_vars

\* C5: when the execution of a task exceeds import_timeout, the task's
\* status becomes "timeout" and its callback is invoked with success = false
\* and the timeout message.
C5_TimeoutStatus ==
    [][\A p \in 1..Len(procs) :
          ImportTimeout(p)
          => LET t == procs[p].task
             IN  /\ tasks'[t].status = "timeout"
                 /\ tasks[t].callback # "none"
                      => /\ Len(cblog'[t]) > Len(cblog[t])
                         /\ cblog'[t][Len(cblog[t]) + 1]
                              = Invocation(FALSE, "Import timeout")]_vars

\* C6: every accepted task is eventually taken off the queue: the importer
\* never rests with a task in the queue and no processor running or pending.
C6_QueueNeverStalls ==
    import_queue # <<>> => ~NoProcessor

\* C8: force-import for an asset whose import task is still queued or
\* processing adds no task: the queue and the task list are unchanged.
C8_ForceImportIdempotent ==
    [][(/\ ncalls' # ncalls
        /\ last'.op = "force_import"
        /\ \E t \in 1..Len(tasks) :
              /\ tasks[t].asset_name = last'.name
              /\ tasks[t].status \in {"queued", "processing"})
        => /\ import_queue' = import_queue
           /\ tasks' = tasks]_vars

\* C9: every write to the scene document runs on the host's loop, never on
\* the API server's thread.
C9_WritesOnHostLoop ==
    scene_writers \subseteq {HostThread}

\* C10: as long as only mesh bundles have been uploaded and no point cloud,
\* no document is built, no import task is created and the scene is as it
\* was.
C10_MeshOnlyWaits ==
    pointclouds = {}
    => /\ usd_files = {ExternalUsd}
       /\ tasks = <<>>
       /\ import_queue = <<>>
       /\ scene = EmptyScene

\* The step is a call of DELETE /assets/clear.
ClearStep == ncalls' = ncalls + 1 /\ last'.op = "clear_assets"

\* C11: an entry recorded in uploaded_assets or in _scene_objects is removed
\* or replaced only by the clear operation: every step that is not a clear
\* keeps every recorded entry, for the file it was recorded for.
C11_EntriesKeptUntilClear ==
    [][ ~ClearStep
        => /\ Len(uploaded_assets') >= Len(uploaded_assets)
           /\ \A i \in 1..Len(uploaded_assets) :
                 /\ uploaded_assets'[i].filename = uploaded_assets[i].filename
                 /\ uploaded_assets'[i].asset_name
                      = uploaded_assets[i].asset_name
           /\ pointclouds \subseteq pointclouds' ]_vars

\* C12: when DELETE /assets/clear returns, no asset record remains, the
\* scene manager tracks no object, and the stage holds no node the pipeline
\* created: none with roworks:file_type and none written by the importer
\* under /World/RoWorks/Assets.
C12_ClearLeavesNothing ==
    [][ ClearStep
        => /\ uploaded_assets' = <<>>
           /\ pointclouds' = {}
           /\ typed_prims' = {}
           /\ \A n \in PrimNames : scene'.prims[n] = "absent" ]_vars

\* ------------------------------------------------------ OBJ parser claims
IsFace(line) == StartsWith(line, <<"f">>)

\* The zero-based corners a face line names.
Corners(line) == FaceIndices(Tail(line)).indices

\* The line holds a numeric token that int() or float() rejects.
Malformed(line) ==
    \/ IsFace(line) /\ ~FaceIndices(Tail(line)).ok
    \/ /\ StartsWith(line, <<"v">>) \/ StartsWith(line, <<"v", "n">>)
       /\ \E i \in 2..Len(line) : i <= 4 /\ ~ParseFloat(line[i]).ok
    \/ /\ StartsWith(line, <<"v", "t">>)
       /\ \E i \in 2..Len(line) : i <= 3 /\ ~ParseFloat(line[i]).ok

\* The triangles (c0, ci, ci+1) of a face, in order, as a flat index list.
RECURSIVE Fan(_, _)
Fan(c, i) ==
    IF i + 1 > Len(c) THEN <<>>
    ELSE <<c[1], c[i], c[i + 1]>> \o Fan(c, i + 1)

\* The fans of the face lines of a file, in file order.
RECURSIVE Fans(_, _)
Fans(lines, i) ==
    IF i > Len(lines) THEN <<>>
    ELSE (IF IsFace(lines[i]) THEN Fan(Corners(lines[i]), 2) ELSE <<>>)
         \o Fans(lines, i + 1)

FaceSizes(lines) ==
    {Len(lines[i]) - 1 : i \in {j \in 1..Len(lines) : IsFace(lines[j])}}

\* C13: MeshUSDManager._parse_obj_file turns each face with 4 corners into
\* the triangles (c0,c1,c2), (c0,c2,c3), in that order, and each face with 3
\* corners into one triangle, with indices made zero-based: for a file all
\* of whose faces have 3 or 4 integer corners, the index list returned is
\* these triangles in file order.
C13_QuadsSplitInOrder ==
    ( /\ returned.by = "MeshUSDManager"
      /\ FaceSizes(given) \subseteq {3, 4}
      /\ \A i \in 1..Len(given) : IsFace(given[i]) => ~Malformed(given[i]) )
    => returned.out.faces = Fans(given, 1)

Geometry(out) == <<out.vertices, out.faces, out.uvs, out.normals>>

WithoutMalformed(lines) == SelectSeq(lines, LAMBDA l : ~Malformed(l))

\* C14: a line with a malformed numeric token is skipped and parsing
\* continues: either parser returns what it returns for the same file with
\* the malformed lines removed.
C14_MalformedLinesSkipped ==
    returned.by \in Parsers
    => Geometry(returned.out)
         = Geometry(ParseObjFile(returned.by, WithoutMalformed(given)))

\* C15: every face index either parser returns is at least 0 and less than
\* the number of vertices it returns.
C15_IndicesInRange ==
    returned.by \in Parsers
    => \A i \in 1..Len(returned.out.faces) :
          /\ returned.out.faces[i] >= 0
          /\ returned.out.faces[i] < Len(returned.out.vertices)

\* C16: a face with more than 4 corners is fan-triangulated or explicitly
\* rejected, never silently dropped: for a file without malformed lines
\* whose faces have 3 or more corners, MeshUSDManager._parse_obj_file returns
\* the fans of all faces or reports an error.
C16_LargeFacesNotDropped ==
    ( /\ returned.by = "MeshUSDManager"
      /\ \A i \in 1..Len(given) : ~Malformed(given[i])
      /\ \A n \in FaceSizes(given) : n >= 3 )
    => \/ returned.out.faces = Fans(given, 1)
       \/ returned.out.error

\* ------------------------------------------------ point-cloud loader claims
\* The line yields a point: three or more fields, the first three numeric.
YieldsPoint(line) == Len(line) >= 3 /\ Floats(line, 3).ok

\* The points of all lines of a file that yield one, in file order.
ValidPoints(lines) ==
    LET valid == SelectSeq(lines, YieldsPoint)
    IN  [i \in 1..Len(valid) |-> Halves(Floats(valid[i], 3).values)]

XyzLoaders == {"_import_xyz_pointcloud", "_import_pointcloud_to_usd"}

\* The cap of the loader that returned.
Cap ==
    IF returned.by = "_import_xyz_pointcloud" THEN SceneLineLimit
    ELSE PolycamLineLimit

\* C17: for a file with more valid point lines than the cap, the loader
\* returns exactly cap points, the first cap valid points in file order;
\* lines that yield no point do not count.
C17_CapKeepsFirstPoints ==
    (returned.by \in XyzLoaders /\ Len(ValidPoints(given)) > Cap)
    => returned.out.points = SubSeq(ValidPoints(given), 1, Cap)

\* C18: for a file that yields no valid point, the loader returns the fixed
\* non-empty fallback point set and the import succeeds.
C18_FallbackWhenNoPoints ==
    (returned.by \in XyzLoaders /\ ValidPoints(given) = <<>>)
    => /\ returned.out.success
       /\ returned.out.points # <<>>
       /\ returned.by = "_import_xyz_pointcloud"
          => returned.out.points = SamplePoints

\* ------------------------------------------------------------ name claims
Sanitizers == {"MeshUSDManager._sanitize_name",
               "NonBlockingUSDImporter._sanitize_name"}

\* C19: _sanitize_name is idempotent, and what it returns is not empty, holds
\* only letters, digits and underscores, and does not begin with a digit:
\* every returned name is of this form, sanitising it gives it back, and
\* the importer's _sanitize_name returns the manager's name as it got it.
C19_SanitizeIdempotent ==
    returned.by \in Sanitizers
    => /\ returned.out # <<>>
       /\ \A i \in 1..Len(returned.out) :
             returned.out[i] \in Letters \cup Digits \cup {"_"}
       /\ returned.out[1] \notin Digits
       /\ SanitizeName(returned.out) = returned.out
       /\ returned.arg = SanitizeName(given) => returned.out = returned.arg

\* The importer has sanitised again the name the manager made of a file
\* name that has a leading digit, an unsafe character and a suffix.
C19_Witness ==
    /\ returned.by = "NonBlockingUSDImporter._sanitize_name"
    /\ given = <<"1", "-", ".", "a">>
    /\ returned.arg = SanitizeName(given)
    /\ returned.arg # given
    /\ returned.out = <<"A", "s", "s", "e", "t", "_", "1", "_">>

\* The step is a call of POST /mesh/import.
UploadStep == ncalls' = ncalls + 1 /\ last'.op = "import_mesh"

\* C20: a bundle is accepted exactly when its archive holds an .obj file
\* (and can be extracted), whatever else it holds; and when the bundle is
\* not accepted, process_mesh_zip reports a failure, adds no asset record,
\* enqueues no import task and leaves the scene as it was.
C20_AcceptedIffGeometry ==
    [][ UploadStep
        => /\ returned'.out.valid
              <=> (~returned'.arg.corrupt /\ "obj" \in returned'.arg.members)
           /\ ~returned'.out.valid
              => /\ ~last'.ok
                 /\ UNCHANGED <<uploaded_assets, tasks, import_queue, scene,
                                typed_prims, pointclouds>> ]_vars

\* The step is an extraction: POST /mesh/import or POST /debug/analyze-zip.
ExtractStep ==
    ncalls' = ncalls + 1 /\ last'.op \in {"import_mesh", "analyze_zip"}

\* C21: each extraction unpacks into a directory no other extraction uses,
\* so the files classified for a bundle are files of that bundle's own
\* archive, also for two extractions of the same clock second.
C21_ExtractionIsolated ==
    [][ (ExtractStep /\ ~returned'.arg.corrupt)
        => returned'.out.dir \subseteq returned'.arg.members ]_vars

\* ------------------------------------------------------ built documents
\* The step is a call of process_mesh_zip that built a document.
BuildStep ==
    /\ ncalls' = ncalls + 1
    /\ last'.op = "process_mesh_zip"
    /\ last'.ok

\* C22: a built document whose material input has no texture bound shows
\* the flat gray display colour when the build had no texture files and
\* the 'texture failed' colour when it had some (no UVs, material creation
\* failed, or texture copy failed); it never has neither colour.
C22_FallbackColour ==
    [][ (BuildStep /\ documents'[last'.name].texture = NoTexture)
        => documents'[last'.name].display =
              IF returned'.out.dir \cap TextureNames = {} THEN "gray"
              ELSE "orange" ]_vars

\* The documents whose material has a texture bound.
Textured(docs) == {a \in DOMAIN docs : docs[a].texture # NoTexture}

\* C30: the persistent texture copy one asset's material references is
\* left unchanged by every later upload of a different asset, and distinct
\* assets have distinct persistent texture paths, also when their bundles
\* hold textures of the same file name.
C30_TextureCopiesApart ==
    [][ (ncalls' = ncalls + 1 /\ last'.op = "process_mesh_zip")
        => /\ \A a \in Textured(documents) \ {last'.name} :
                 textures'[documents[a].texture]
                    = textures[documents[a].texture]
           /\ \A a, b \in Textured(documents') :
                 a # b => documents'[a].texture # documents'[b].texture ]_vars

\* C23: whenever a built document's material has a texture bound, the
\* bound path is the path of a file that exists once the composition
\* attempt has finished and the scratch directories are released, for the
\* documents of MeshUSDManager and of the Polycam importer alike.
C23_BoundTextureExists ==
    \A a \in Textured(documents) : documents[a].texture \in DOMAIN textures

\* ------------------------------------------------------ repeated import
\* C24: an import into a path that holds a node first removes that node,
\* and when an import of an asset completes, also a second one of the same
\* asset, the node at its path is the node one import makes (complete,
\* with the one reference to the asset's document) and no other node has
\* changed.
C24_ImportIdempotent ==
    [][ /\ \A p \in 1..Len(procs) :
              (/\ procs[p].pc = "ref_parent"
               /\ procs'[p].pc = "ref_removed")
              => LET n == SanitizeName(tasks[procs[p].task].asset_name)
                 IN  scene'.prims[n] = "absent" /\ scene'.refs[n] = <<>>
        /\ \A t \in 1..Len(tasks) :
              (tasks[t].status # "completed" /\ tasks'[t].status = "completed")
              => LET n == SanitizeName(tasks[t].asset_name)
                 IN  /\ scene'.prims[n] = "complete"
                     /\ scene'.refs[n] = <<tasks[t].usd_path>>
                     /\ \A m \in PrimNames \ {n} :
                           /\ scene'.prims[m] = scene.prims[m]
                           /\ scene'.refs[m] = scene.refs[m] ]_vars

\* The same asset has been imported twice, both imports completed.
C24_Witness ==
    /\ Len(tasks) = 2
    /\ tasks[1].asset_name = tasks[2].asset_name
    /\ tasks[1].usd_path = tasks[2].usd_path
    /\ tasks[1].status = "completed" /\ tasks[2].status = "completed"
    /\ scene.refs[SanitizeName(tasks[1].asset_name)] = <<tasks[1].usd_path>>

\* ------------------------------------------------- records and tasks
\* C25: when process_mesh_zip returns success, the record of the upload
\* shows the outcome of scheduling: import_status 'importing' when the
\* importer accepted the task, 'failed' with the message 'Failed to
\* schedule import' when it rejected it.
C25_RecordShowsScheduling ==
    [][ (UploadStep /\ last'.ok)
        => LET rec == uploaded_assets'[Len(uploaded_assets')]
           IN  IF last'.task # None
               THEN rec.import_status = "importing"
               ELSE /\ rec.import_status = "failed"
                    /\ rec.import_message = "Failed to schedule import" ]_vars

\* ------------------------------------------------------ triangle lists
RECURSIVE SumSeq(_)
SumSeq(q) == IF q = <<>> THEN 0 ELSE Head(q) + SumSeq(Tail(q))

\* The triangles of the fan of a face, as a set of triples.
FanTriangles(c) ==
    {<<c[1], c[i], c[i + 1]>> : i \in 2..(Len(c) - 1)}

\* C26: for a file without malformed lines whose faces have 3, 4 or more
\* corners, the flattened index list either parser returns has a length
\* that is a multiple of 3, each consecutive triple of it is one triangle
\* of one face of the file, and the face-vertex counts written beside it
\* sum to its length.
C26_TriplesAreTriangles ==
    ( /\ returned.by \in Parsers
      /\ \A i \in 1..Len(given) : ~Malformed(given[i])
      /\ \A n \in FaceSizes(given) : n >= 3 )
    => LET faces == returned.out.faces
       IN  /\ Len(faces) % 3 = 0
           /\ \A k \in 1..(Len(faces) \div 3) :
                 \E i \in 1..Len(given) :
                    /\ IsFace(given[i])
                    /\ <<faces[3 * k - 2], faces[3 * k - 1], faces[3 * k]>>
                          \in FanTriangles(Corners(given[i]))
           /\ SumSeq(FaceVertexCounts(returned.by, faces)) = Len(faces)

\* C27: the completion callback of every task accepted into the queue is
\* invoked exactly once, with the task's final outcome: never twice, and
\* once the task has its final status the one invocation reports it, also
\* when the callback raises or the yield after the task raises.
C27_CallbackExactlyOnce ==
    \A t \in 1..Len(tasks) :
        tasks[t].callback # "none"
        => /\ Len(cblog[t]) <= 1
           /\ tasks[t].status \in {"completed", "failed", "error"}
              => /\ Len(cblog[t]) = 1
                 /\ cblog[t][1].success = (tasks[t].status = "completed")

\* C28: asset ids are unique in the registry and the completion of a task
\* updates the record of its own upload: no two records share an
\* asset_name or a usd_path, and a step that invokes the callback of a
\* task changes no record but that of the task's asset.
C28_RecordsApart ==
    [][ /\ \A i, j \in 1..Len(uploaded_assets') :
              i # j => /\ uploaded_assets'[i].asset_name
                             # uploaded_assets'[j].asset_name
                       /\ uploaded_assets'[i].usd_path
                             # uploaded_assets'[j].usd_path
        /\ \A t \in 1..Len(tasks) :
              cblog'[t] # cblog[t]
              => \A i \in 1..Len(uploaded_assets) :
                    uploaded_assets'[i] # uploaded_assets[i]
                    => uploaded_assets[i].asset_name = tasks[t].asset_name ]_vars

\* C29: a clear also takes effect on pending imports: a task that was
\* queued or processing when the registry was cleared creates no scene
\* node afterwards, so that a node the importer creates always has a record
\* in uploaded_assets at the step that creates it.
C29_ClearStopsPendingImports ==
    [][ \A n \in PrimNames :
           (scene.prims[n] = "absent" /\ scene'.prims[n] # "absent")
           => \E i \in 1..Len(uploaded_assets') :
                 SanitizeName(uploaded_assets'[i].asset_name) = n ]_vars

====
